---- MODULE Spec2Model ----
(***************************************************************************)
(* Model of the attendance bot of src/app.py: the three module-level       *)
(* stores (user_data, attendance_records, attempt_counts), the four        *)
(* handlers (start, checkin, get_location, cancel) and the conversation    *)
(* table of main().  Every handler is cut at its single                    *)
(* `await update.message.reply_text(...)`: the statements before the await *)
(* are one step (X_begin), the delivery of the reply together with the     *)
(* statements after it and the returned state are a second step            *)
(* (X_return).  Updates wait in update_queue and are taken one at a time:  *)
(* the application is built with the default (sequential) update           *)
(* processing and the conversation handler is a blocking handler.          *)
(* Every user talks to the bot in one chat, so a conversation key is a     *)
(* user_id.  In Spec every awaited reply is delivered.                     *)
(*                                                                         *)
(* Coordinates are integers in micro-degrees, distances are metres         *)
(* (rounded up), so `distance <= 5.0` km is `distance_m <= 5000`.          *)
(***************************************************************************)
EXTENDS Integers, Sequences, FiniteSets, TLC

(* ----------------------------- bounds ---------------------------------- *)
MaxQueue == 1
MaxRecords == 2
\* replies fail only while the sender's attempt count is below this
MaxCountAtFailure == 4

(* ------------------------ program constants ---------------------------- *)
CHECK_IN == 1
GET_LOCATION == 2
MAX_ATTEMPTS == 3
\* ConversationHandler.END, and the value of a conversation key that was
\* never set (None)
END == -1
NONE == 0
\* attempt_counts has no entry for the user
NoKey == -1
\* user_data has no entry for the user
NoUser == "<absent>"

Users == {101, 102}
\* the usernames each user is seen with
NamesOf == [u \in Users |-> IF u = 101 THEN {"ana"} ELSE {"bob"}]

\* sample coordinates (micro-degrees); P_CENTER stands for the configured
\* centre of lines 127-128 itself
P_CENTER == [latitude |-> 19523732, longitude |-> -99253666]
P_FAR == [latitude |-> 19600000, longitude |-> -99300000]
\* due north of the centre, the last micro-degree within 5 km and the next
P_EDGE_IN == [latitude |-> 19568697, longitude |-> -99253666]
P_EDGE_OUT == [latitude |-> 19568698, longitude |-> -99253666]
\* the centre with its longitude a whole turn (360 degrees) further east
P_TURN == [latitude |-> 19523732, longitude |-> 260746334]
\* a latitude of 91 degrees on the centre's meridian
P_POLE == [latitude |-> 91000000, longitude |-> -99253666]
NoLocation == [latitude |-> 0, longitude |-> 0]
Locations == {P_CENTER, P_FAR}
GeofenceLocations == {P_CENTER, P_FAR, P_EDGE_IN, P_EDGE_OUT, P_TURN, P_POLE}

VARIABLES
  user_data,           \* user_id -> stored username, or NoUser
  attendance_records,  \* sequence of attendance records
  attempt_counts,      \* user_id -> number of counted attempts, or NoKey
  conversations,       \* user_id -> NONE | CHECK_IN | GET_LOCATION | END
  update_queue,        \* updates received and not yet processed
  running,             \* the handler that is suspended at its await, with
                       \* the message whose delivery it awaits
  session,             \* history, per user, of the current check-in session:
                       \* rejected submissions handled and records appended
                       \* since the check-in command was acted on; cleared
                       \* when the conversation ends
  checkins             \* history, per user: check-in commands acted on,
                       \* counted up to MaxRecords

vars == <<user_data, attendance_records, attempt_counts, conversations,
          update_queue, running, session, checkins>>

(* ------------------------------ updates -------------------------------- *)
NoUpdate == [user_id |-> 0, username |-> "", text |-> "", location |-> NoLocation]
NoReply == [text |-> "none", remaining_attempts |-> 0]
Idle == [pc |-> "idle", update |-> NoUpdate, reply |-> NoReply]
Reply(text, remaining_attempts) ==
  [text |-> text, remaining_attempts |-> remaining_attempts]

\* a message carries a command, a plain text, or a location; the sender's
\* username is one of names[user_id]
UpdatesFor(users, names, locations) ==
  UNION {{[user_id |-> u, username |-> n, text |-> t, location |-> NoLocation] :
            n \in names[u], t \in {"/start", "/checkin", "/cancel", "hello"}} : u \in users}
  \cup
  UNION {{[user_id |-> u, username |-> n, text |-> "", location |-> l] :
            n \in names[u], l \in locations} : u \in users}

UpdatesOf(names) == UpdatesFor(Users, names, Locations)

Updates == UpdatesOf(NamesOf)

HasLocation(upd) == upd.location # NoLocation

(* -------------------------- is_location_valid -------------------------- *)
\* Haversine distance to the centre, as computed by lines 127-144 on the
\* sample coordinates, in metres rounded up.
distance_m(latitude, longitude) ==
  CASE latitude = 19523732 /\ longitude = -99253666 -> 0
    [] latitude = 19600000 /\ longitude = -99300000 -> 9772
    [] latitude = 19568697 /\ longitude = -99253666 -> 5000
    [] latitude = 19568698 /\ longitude = -99253666 -> 5001
    [] latitude = 19523732 /\ longitude = 260746334 -> 1
    [] latitude = 91000000 /\ longitude = -99253666 -> 7947799
    [] OTHER -> 20000000

max_distance_m == 5000

\* the boundary excluded: `distance < max_distance`
is_location_valid_strict(latitude, longitude) ==
  distance_m(latitude, longitude) < max_distance_m

\* the comparison inverted
is_location_valid_inverted(latitude, longitude) ==
  distance_m(latitude, longitude) >= max_distance_m

is_location_valid(latitude, longitude) ==
  distance_m(latitude, longitude) <= max_distance_m

(* -------------------------- record_attendance -------------------------- *)
\* a record equal to one in the ledger is not appended again
record_attendance_dedup(records, user_id, username, latitude, longitude) ==
  LET rec == [user_id |-> user_id, username |-> username,
              latitude |-> latitude, longitude |-> longitude]
  IN IF \E i \in 1..Len(records) : records[i] = rec
     THEN records
     ELSE Append(records, rec)

\* lines 166-175 (the timestamp is left out of the record)
record_attendance(records, user_id, username, latitude, longitude) ==
  Append(records, [user_id |-> user_id, username |-> username,
                   latitude |-> latitude, longitude |-> longitude])

(* --------------------------- conv_handler ------------------------------ *)
\* a conversation key exists for the user
HasConversation(state) == state \in {CHECK_IN, GET_LOCATION}

\* /cancel registered with the CHECK_IN state instead of as a fallback
SelectHandler_cancel_in_check_in(state, upd) ==
  IF ~HasConversation(state)
  THEN IF upd.text = "/start" THEN "start" ELSE "none"
  ELSE IF state = CHECK_IN /\ upd.text = "/checkin" THEN "checkin"
  ELSE IF state = CHECK_IN /\ upd.text = "/cancel" THEN "cancel"
  ELSE IF state = GET_LOCATION /\ HasLocation(upd) THEN "get_location"
  ELSE "none"

\* the location handler registered as a second entry point
SelectHandler_location_entry(state, upd) ==
  IF ~HasConversation(state)
  THEN IF upd.text = "/start" THEN "start"
       ELSE IF HasLocation(upd) THEN "get_location" ELSE "none"
  ELSE IF state = CHECK_IN /\ upd.text = "/checkin" THEN "checkin"
  ELSE IF state = GET_LOCATION /\ HasLocation(upd) THEN "get_location"
  ELSE IF upd.text = "/cancel" THEN "cancel"
  ELSE "none"

\* /checkin registered as a second entry point
SelectHandler_checkin_entry(state, upd) ==
  IF ~HasConversation(state)
  THEN IF upd.text = "/start" THEN "start"
       ELSE IF upd.text = "/checkin" THEN "checkin" ELSE "none"
  ELSE IF state = CHECK_IN /\ upd.text = "/checkin" THEN "checkin"
  ELSE IF state = GET_LOCATION /\ HasLocation(upd) THEN "get_location"
  ELSE IF upd.text = "/cancel" THEN "cancel"
  ELSE "none"

\* which handler the conversation handler runs for an update: an entry
\* point when the user has no conversation (no allow_reentry), else the
\* handler of the user's state, else the fallback
SelectHandler(state, upd) ==
  IF ~HasConversation(state)
  THEN IF upd.text = "/start" THEN "start" ELSE "none"
  ELSE IF state = CHECK_IN /\ upd.text = "/checkin" THEN "checkin"
  ELSE IF state = GET_LOCATION /\ HasLocation(upd) THEN "get_location"
  ELSE IF upd.text = "/cancel" THEN "cancel"
  ELSE "none"

NewSession == [failures |-> 0, records |-> 0]

\* the geofence of lines 127-128 and 148, on the sample coordinates
InsideGeofence(location) ==
  distance_m(location.latitude, location.longitude) <= 5000

\* a submission that must be rejected: outside the geofence, or no location
FailingSubmission(upd) ==
  ~(HasLocation(upd) /\ InsideGeofence(upd.location))

Count(u) == IF attempt_counts[u] = NoKey THEN 0 ELSE attempt_counts[u]

Init ==
  /\ user_data = [u \in Users |-> NoUser]
  /\ attendance_records = <<>>
  /\ attempt_counts = [u \in Users |-> NoKey]
  /\ conversations = [u \in Users |-> NONE]
  /\ update_queue = <<>>
  /\ running = Idle
  /\ session = [u \in Users |-> NewSession]
  /\ checkins = [u \in Users |-> 0]

\* the channel delivers an update
ReceiveFrom(updates) ==
  /\ Len(update_queue) < MaxQueue
  /\ \E upd \in updates : update_queue' = Append(update_queue, upd)
  /\ UNCHANGED <<checkins, user_data, attendance_records, attempt_counts, conversations,
                 running, session>>

Receive == ReceiveFrom(Updates)

\* the application built with concurrent_updates enabled: an update is
\* taken while a handler is still suspended
concurrent_updates(handler) == TRUE

\* line 334 builds the application with the default, sequential update
\* processing, and conv_handler is a blocking handler: the next update is
\* taken only when the handler of the previous one has returned
sequential_updates(handler) == handler.pc = "idle"

(* ------------------------------- start --------------------------------- *)
\* lines 183-190: register the user on first sight
start_register_skipped(data, upd) == data

start_register(data, upd) ==
  IF data[upd.user_id] = NoUser
  THEN [data EXCEPT ![upd.user_id] = upd.username]
  ELSE data

start_begin ==
  /\ sequential_updates(running)
  /\ update_queue # <<>>
  /\ LET upd == Head(update_queue) IN
       /\ SelectHandler(conversations[upd.user_id], upd) = "start"
       /\ user_data' = start_register(user_data, upd)
       /\ running' = [pc |-> "start_await", update |-> upd, reply |-> Reply("welcome", 0)]
  /\ update_queue' = Tail(update_queue)
  /\ UNCHANGED <<checkins, attendance_records, attempt_counts, conversations, session>>

\* lines 192-196: the reply is delivered, the handler returns CHECK_IN
start_return ==
  /\ running.pc = "start_await"
  /\ LET u == running.update.user_id IN
       conversations' = [conversations EXCEPT ![u] = CHECK_IN]
  /\ running' = Idle
  /\ UNCHANGED <<checkins, user_data, attendance_records, attempt_counts, update_queue, session>>

(* ------------------------------ checkin -------------------------------- *)
\* every user's count reset, not only the sender's
checkin_reset_all(counts, u) == [v \in DOMAIN counts |-> 0]

\* the count initialised only for a user without one
checkin_reset_only_new(counts, u) ==
  IF counts[u] = NoKey THEN [counts EXCEPT ![u] = 0] ELSE counts

\* lines 204-206: reset the attempt count
checkin_reset(counts, u) == [counts EXCEPT ![u] = 0]

\* one more check-in command acted on for user u (the ledger holds at most
\* MaxRecords records, the count is kept up to that number)
count_checkin(n, u) ==
  [n EXCEPT ![u] = IF @ < MaxRecords THEN @ + 1 ELSE @]

checkin_begin ==
  /\ sequential_updates(running)
  /\ update_queue # <<>>
  /\ LET upd == Head(update_queue) IN
       /\ SelectHandler(conversations[upd.user_id], upd) = "checkin"
       /\ attempt_counts' = checkin_reset(attempt_counts, upd.user_id)
       /\ running' = [pc |-> "checkin_await", update |-> upd,
                     reply |-> Reply("prompt_location", 0)]
       /\ session' = [session EXCEPT ![upd.user_id] = NewSession]
       /\ checkins' = count_checkin(checkins, upd.user_id)
  /\ update_queue' = Tail(update_queue)
  /\ UNCHANGED <<user_data, attendance_records, conversations>>

\* lines 214-218: the location prompt is delivered, the handler returns GET_LOCATION
checkin_return ==
  /\ running.pc = "checkin_await"
  /\ LET u == running.update.user_id IN
       conversations' = [conversations EXCEPT ![u] = GET_LOCATION]
  /\ running' = Idle
  /\ UNCHANGED <<checkins, user_data, attendance_records, attempt_counts, update_queue, session>>

(* ---------------------------- get_location ----------------------------- *)
\* lines 230-232
init_count(counts, u) ==
  IF counts[u] = NoKey THEN [counts EXCEPT ![u] = 0] ELSE counts

\* line 243 left out: the count survives a success
reset_on_success_skipped(counts, u) == counts

\* lines 242-243
reset_on_success(counts, u) == [counts EXCEPT ![u] = 0]

\* the exhaustion test off by one: `remaining_attempts >= 0`
count_failure_off_by_one(counts, u, kind) ==
  LET incremented == [counts EXCEPT ![u] = counts[u] + 1]
      remaining_attempts == MAX_ATTEMPTS - incremented[u]
  IN IF remaining_attempts >= 0
     THEN [counts |-> incremented, pc |-> "retry_await",
           reply |-> Reply("retry_" \o kind, remaining_attempts)]
     ELSE [counts |-> incremented, pc |-> "exhausted_await",
           reply |-> Reply("exhausted_" \o kind, 0)]

\* lines 253-257 and 288-292: count the attempt, compute what is left,
\* pick the message (lines 264-271, 275-283; 299-304, 308-316)
count_failure(counts, u, kind) ==
  LET incremented == [counts EXCEPT ![u] = counts[u] + 1]
      remaining_attempts == MAX_ATTEMPTS - incremented[u]
  IN IF remaining_attempts > 0
     THEN [counts |-> incremented, pc |-> "retry_await",
           reply |-> Reply("retry_" \o kind, remaining_attempts)]
     ELSE [counts |-> incremented, pc |-> "exhausted_await",
           reply |-> Reply("exhausted_" \o kind, 0)]

\* lines 226-319 up to the await of the branch taken
get_location_body(records, counts, username, upd) ==
  LET u == upd.user_id
      counts0 == init_count(counts, u)
  IN IF HasLocation(upd)
     THEN IF is_location_valid(upd.location.latitude, upd.location.longitude)
          THEN [records |-> record_attendance(records, u, username,
                                  upd.location.latitude, upd.location.longitude),
                counts |-> reset_on_success(counts0, u),
                pc |-> "success_await",
                reply |-> Reply("success", 0)]
          ELSE [records |-> records] @@ count_failure(counts0, u, "outside")
     ELSE [records |-> records] @@ count_failure(counts0, u, "invalid")

\* lines 285 and 318 left out: the count is not reset after exhaustion
get_location_resume_no_reset(pc, counts, u) ==
  CASE pc = "success_await" -> [counts |-> counts, state |-> END]
    [] pc = "retry_await" -> [counts |-> counts, state |-> GET_LOCATION]
    [] pc = "exhausted_await" -> [counts |-> counts, state |-> END]

\* line 251 returning GET_LOCATION: the conversation stays open after a
\* recorded check-in
get_location_resume_stay(pc, counts, u) ==
  CASE pc = "success_await" -> [counts |-> counts, state |-> GET_LOCATION]
    [] pc = "retry_await" -> [counts |-> counts, state |-> GET_LOCATION]
    [] pc = "exhausted_await" -> [counts |-> [counts EXCEPT ![u] = 0], state |-> END]

\* the statements after the await of each branch: the attempt counts and
\* the state the handler returns (lines 251, 272, 285-286, 305, 318-319)
get_location_resume(pc, counts, u) ==
  CASE pc = "success_await" -> [counts |-> counts, state |-> END]
    [] pc = "retry_await" -> [counts |-> counts, state |-> GET_LOCATION]
    [] pc = "exhausted_await" -> [counts |-> [counts EXCEPT ![u] = 0], state |-> END]

GetLocationPcs == {"success_await", "retry_await", "exhausted_await"}

get_location_begin ==
  /\ sequential_updates(running)
  /\ update_queue # <<>>
  /\ LET upd == Head(update_queue)
         u == upd.user_id
     IN /\ SelectHandler(conversations[u], upd) = "get_location"
        /\ IF user_data[u] = NoUser
           THEN \* line 228 raises KeyError: the handler ends without effect
                UNCHANGED <<attendance_records, attempt_counts, running, session>>
           ELSE LET r == get_location_body(attendance_records, attempt_counts,
                                           user_data[u], upd)
                IN /\ Len(r.records) <= MaxRecords
                   /\ attendance_records' = r.records
                   /\ attempt_counts' = r.counts
                   /\ running' = [pc |-> r.pc, update |-> upd, reply |-> r.reply]
                   /\ session' = [session EXCEPT ![u] =
                        [failures |-> @.failures + (IF FailingSubmission(upd) THEN 1 ELSE 0),
                         records |-> @.records + Len(r.records) - Len(attendance_records)]]
  /\ update_queue' = Tail(update_queue)
  /\ UNCHANGED <<checkins, user_data, conversations>>

\* the reply is delivered; the branch's remaining statements run
get_location_return ==
  /\ running.pc \in GetLocationPcs
  /\ LET u == running.update.user_id
         r == get_location_resume(running.pc, attempt_counts, u)
     IN /\ attempt_counts' = r.counts
        /\ conversations' = [conversations EXCEPT ![u] = r.state]
        /\ session' = IF r.state = END
                       THEN [session EXCEPT ![u] = NewSession]
                       ELSE session
  /\ running' = Idle
  /\ UNCHANGED <<checkins, user_data, attendance_records, update_queue>>

(* ------------------------------- cancel -------------------------------- *)
cancel_begin ==
  /\ sequential_updates(running)
  /\ update_queue # <<>>
  /\ LET upd == Head(update_queue) IN
       /\ SelectHandler(conversations[upd.user_id], upd) = "cancel"
       /\ running' = [pc |-> "cancel_await", update |-> upd, reply |-> Reply("farewell", 0)]
  /\ update_queue' = Tail(update_queue)
  /\ UNCHANGED <<checkins, user_data, attendance_records, attempt_counts, conversations, session>>

\* lines 326-327: the farewell is delivered, the handler returns END
cancel_return ==
  /\ running.pc = "cancel_await"
  /\ LET u == running.update.user_id IN
       /\ conversations' = [conversations EXCEPT ![u] = END]
       /\ session' = [session EXCEPT ![u] = NewSession]
  /\ running' = Idle
  /\ UNCHANGED <<checkins, user_data, attendance_records, attempt_counts, update_queue>>

(* ------------------------- unhandled updates --------------------------- *)
\* no entry point, state handler or fallback accepts the update: it is dropped
ignore_update ==
  /\ sequential_updates(running)
  /\ update_queue # <<>>
  /\ LET upd == Head(update_queue) IN
       SelectHandler(conversations[upd.user_id], upd) = "none"
  /\ update_queue' = Tail(update_queue)
  /\ UNCHANGED <<checkins, user_data, attendance_records, attempt_counts, conversations,
                 running, session>>

Next ==
  \/ Receive
  \/ start_begin
  \/ start_return
  \/ checkin_begin
  \/ checkin_return
  \/ get_location_begin
  \/ get_location_return
  \/ cancel_begin
  \/ cancel_return
  \/ ignore_update

Spec == Init /\ [][Next]_vars

(* ------------------- replies that cannot be delivered ------------------ *)
\* the awaited reply_text raises (lines 192, 214, 244, 264, 275, 326): the
\* handler ends there, the statements after the await are not run and the
\* conversation keeps the state it had
reply_fails ==
  /\ running.pc # "idle"
  /\ Count(running.update.user_id) < MaxCountAtFailure
  /\ running' = Idle
  /\ UNCHANGED <<checkins, user_data, attendance_records, attempt_counts, conversations,
                 update_queue, session>>

NextDelivery ==
  \/ Receive
  \/ start_begin
  \/ start_return
  \/ checkin_begin
  \/ checkin_return
  \/ get_location_begin
  \/ get_location_return
  \/ cancel_begin
  \/ cancel_return
  \/ ignore_update
  \/ reply_fails

SpecDelivery == Init /\ [][NextDelivery]_vars

(* ----------- one user reporting from the geofence sample points -------- *)
GeofenceUpdates == UpdatesFor({101}, NamesOf, GeofenceLocations)

ReceiveGeofence == ReceiveFrom(GeofenceUpdates)

NextGeofence ==
  \/ ReceiveGeofence
  \/ start_begin
  \/ start_return
  \/ checkin_begin
  \/ checkin_return
  \/ get_location_begin
  \/ get_location_return
  \/ cancel_begin
  \/ cancel_return
  \/ ignore_update

SpecGeofence == Init /\ [][NextGeofence]_vars


(* --------------- a user whose Telegram username changes ---------------- *)
\* from_user.username is read from every message anew (lines 185, 205):
\* user 101 sends messages under two usernames
ChangingNames == [u \in Users |-> IF u = 101 THEN {"ana", "ann"} ELSE {"bob"}]

\* every message of user 101, and the /start of user 102
NamesUpdates ==
  UpdatesFor({101}, ChangingNames, Locations) \cup
  {upd \in UpdatesFor({102}, ChangingNames, {}) : upd.text = "/start"}

ReceiveNames == ReceiveFrom(NamesUpdates)

NextNames ==
  \/ ReceiveNames
  \/ start_begin
  \/ start_return
  \/ checkin_begin
  \/ checkin_return
  \/ get_location_begin
  \/ get_location_return
  \/ cancel_begin
  \/ cancel_return
  \/ ignore_update

SpecNames == Init /\ [][NextNames]_vars


(* ======================= properties of the handlers ==================== *)
\* the step takes upd from the head of the queue and hands it to the
\* conversation handler
Dispatched ==
  /\ running.pc = "idle"
  /\ update_queue # <<>>
  /\ update_queue' = Tail(update_queue)

\* the update that a dispatching step takes
Next_update == IF update_queue = <<>> THEN NoUpdate ELSE Head(update_queue)

\* the suspended handler of user u is resumed by this step
Resumed(pc, u) ==
  /\ running.pc = pc
  /\ running.update.user_id = u
  /\ running' # running

C2_SuccessRecordsOnce ==
  /\ [][LET upd == Next_update IN
          ( /\ Dispatched
            /\ conversations[upd.user_id] = GET_LOCATION
            /\ HasLocation(upd)
            /\ InsideGeofence(upd.location) ) =>
          /\ Len(attendance_records') = Len(attendance_records) + 1
          /\ SubSeq(attendance_records', 1, Len(attendance_records)) = attendance_records
          /\ LET rec == attendance_records'[Len(attendance_records')] IN
               /\ rec.user_id = upd.user_id
               /\ rec.latitude = upd.location.latitude
               /\ rec.longitude = upd.location.longitude
          /\ attempt_counts'[upd.user_id] = 0
          /\ running'.pc = "success_await"
          /\ running'.update = upd]_vars
  /\ [][\A u \in Users : Resumed("success_await", u) =>
          /\ conversations'[u] = END
          /\ attempt_counts'[u] = 0
          /\ attendance_records' = attendance_records]_vars
  /\ [](running.pc = "success_await" =>
          /\ conversations[running.update.user_id] = GET_LOCATION
          /\ attempt_counts[running.update.user_id] = 0
          /\ session[running.update.user_id].records = 1)

\* a success that follows two rejected submissions of the same session
C2_Witness ==
  /\ running.pc = "success_await"
  /\ session[running.update.user_id].failures = MAX_ATTEMPTS - 1
  /\ attendance_records # <<>>
  /\ attendance_records[Len(attendance_records)].user_id = running.update.user_id

\* C3: no step that handles a failing submission (outside the geofence, or
\* no location in the message), in any conversation state, changes the
\* ledger, nor does the rest of a handler that rejected a submission.
C3_FailureNeverRecords ==
  /\ [][LET upd == Next_update IN
          Dispatched /\ FailingSubmission(upd) =>
            attendance_records' = attendance_records]_vars
  /\ [][running.pc \in {"retry_await", "exhausted_await"} =>
          attendance_records' = attendance_records]_vars

C3_Witness ==
  /\ running.pc = "exhausted_await"
  /\ attendance_records = <<>>

C5_MalformedCounts ==
  [][LET upd == Next_update
         u == upd.user_id
     IN ( /\ Dispatched
          /\ conversations[u] = GET_LOCATION
          /\ upd.text = "hello" ) =>
        /\ attempt_counts'[u] = attempt_counts[u] + 1
        /\ running'.reply.text =
             IF attempt_counts'[u] < MAX_ATTEMPTS
             THEN "retry_invalid" ELSE "exhausted_invalid"]_vars

\* C6: /cancel handled in CHECK_IN or GET_LOCATION runs cancel at once: the
\* farewell is the message sent, the conversation ends, and neither the
\* ledger nor any attempt counter changes.
C6_CancelEnds ==
  /\ [][LET upd == Next_update
            u == upd.user_id
        IN ( /\ Dispatched
             /\ conversations[u] \in {CHECK_IN, GET_LOCATION}
             /\ upd.text = "/cancel" ) =>
           /\ running' = [pc |-> "cancel_await", update |-> upd,
                          reply |-> Reply("farewell", 0)]
           /\ attendance_records' = attendance_records
           /\ attempt_counts' = attempt_counts]_vars
  /\ [][\A u \in Users : Resumed("cancel_await", u) =>
          /\ conversations'[u] = END
          /\ attendance_records' = attendance_records
          /\ attempt_counts' = attempt_counts]_vars

\* a cancel being handled in GET_LOCATION after a rejected submission
C6_Witness ==
  /\ running.pc = "cancel_await"
  /\ conversations[running.update.user_id] = GET_LOCATION
  /\ attempt_counts[running.update.user_id] >= 1

\* C7: (as claimed) /start handled while the user's conversation is in
\* CHECK_IN or GET_LOCATION runs start, which puts it back to CHECK_IN.
C7_StartResets ==
  /\ [][LET upd == Next_update
            u == upd.user_id
        IN ( /\ Dispatched
             /\ conversations[u] \in {CHECK_IN, GET_LOCATION}
             /\ upd.text = "/start" ) =>
           running'.pc = "start_await"]_vars
  /\ [][\A u \in Users : Resumed("start_await", u) =>
          conversations'[u] = CHECK_IN]_vars

\* C8: a conversation enters GET_LOCATION only from CHECK_IN, by the return
\* of checkin after the location prompt, and then the user's counter is 0;
\* /checkin is acted on in CHECK_IN only.
C8_CheckinResets ==
  /\ [][\A u \in Users :
          conversations[u] # GET_LOCATION /\ conversations'[u] = GET_LOCATION =>
            /\ conversations[u] = CHECK_IN
            /\ Resumed("checkin_await", u)
            /\ running.reply = Reply("prompt_location", 0)
            /\ attempt_counts'[u] = 0]_vars
  /\ [][LET upd == Next_update
            u == upd.user_id
        IN Dispatched /\ upd.text = "/checkin" =>
           IF conversations[u] = CHECK_IN
           THEN /\ running' = [pc |-> "checkin_await", update |-> upd,
                               reply |-> Reply("prompt_location", 0)]
                /\ attempt_counts'[u] = 0
           ELSE UNCHANGED <<user_data, attendance_records, attempt_counts,
                            conversations, running, session>>]_vars

\* a check-in session running with a fresh counter
C8_Witness ==
  \E u \in Users :
    /\ conversations[u] = GET_LOCATION
    /\ attempt_counts[u] = 0
    /\ running = Idle

\* C9: a conversation never goes from GET_LOCATION back to CHECK_IN nor
\* from CHECK_IN back to none; an ended conversation is left only by a new
\* /start, and a /checkin, /cancel, text or location of a user whose
\* conversation has ended changes nothing but the queue.
C9_PhaseOnlyAdvances ==
  /\ [][\A u \in Users :
          /\ conversations[u] = NONE =>
               conversations'[u] \in {NONE, CHECK_IN}
          /\ conversations[u] = CHECK_IN =>
               conversations'[u] \in {CHECK_IN, GET_LOCATION, END}
          /\ conversations[u] = GET_LOCATION =>
               conversations'[u] \in {GET_LOCATION, END}
          /\ conversations[u] = END /\ conversations'[u] # END =>
               conversations'[u] = CHECK_IN /\ Resumed("start_await", u)]_vars
  /\ [][LET upd == Next_update
            u == upd.user_id
        IN ( /\ Dispatched
             /\ conversations[u] = END
             /\ upd.text # "/start" ) =>
           UNCHANGED <<user_data, attendance_records, attempt_counts,
                       conversations, running, session>>]_vars

\* a check-in command waiting for a user whose conversation has ended
C9_Witness ==
  /\ running = Idle
  /\ update_queue # <<>>
  /\ conversations[Head(update_queue).user_id] = END
  /\ Head(update_queue).text = "/checkin"

RecordsOf(u) == SelectSeq(attendance_records, LAMBDA r : r.user_id = u)

\* the user whose event a step handles: the sender of the update of the
\* suspended handler, else of the update at the head of the queue
Actor ==
  IF running.pc # "idle" THEN running.update.user_id ELSE Next_update.user_id

\* C11: a step that handles an event of one user leaves every other
\* user's conversation state, attempt counter, registry entry and records
\* unchanged, whatever the order in which the users' events are handled.
C11_UsersIndependent ==
  [][\A b \in Users : b # Actor =>
       /\ conversations'[b] = conversations[b]
       /\ attempt_counts'[b] = attempt_counts[b]
       /\ user_data'[b] = user_data[b]
       /\ RecordsOf(b)' = RecordsOf(b)]_vars

\* one user's report is accepted between two rejected reports of another
C11_Witness ==
  \E a, b \in Users :
    /\ a # b
    /\ conversations[a] = GET_LOCATION
    /\ attempt_counts[a] = 1
    /\ running.pc = "success_await"
    /\ running.update.user_id = b
    /\ update_queue # <<>>
    /\ Head(update_queue).user_id = a

\* a coordinate outside the valid range of latitude or longitude
OutOfRange(location) ==
  \/ location.latitude > 90000000 \/ location.latitude < -90000000
  \/ location.longitude > 180000000 \/ location.longitude < -180000000

\* C12: (as claimed) a location out of range handled in GET_LOCATION
\* counts exactly one attempt, is answered as invalid data and appends no
\* record.
C12_OutOfRangeRejected ==
  [][LET upd == Next_update
         u == upd.user_id
     IN ( /\ Dispatched
          /\ conversations[u] = GET_LOCATION
          /\ HasLocation(upd)
          /\ OutOfRange(upd.location) ) =>
        /\ attendance_records' = attendance_records
        /\ attempt_counts'[u] = attempt_counts[u] + 1
        /\ running'.reply.text \in {"retry_invalid", "exhausted_invalid"}]_vars

\* C13: a /checkin, /cancel, text or location of a user without a
\* conversation (never started, or ended) is dropped: it changes nothing
\* but the queue; a user with a conversation is registered, so
\* get_location never looks up a user_id that user_data lacks.
C13_UnknownUserIgnored ==
  /\ [][LET upd == Next_update
            u == upd.user_id
        IN ( /\ Dispatched
             /\ ~HasConversation(conversations[u])
             /\ upd.text # "/start" ) =>
           UNCHANGED <<user_data, attendance_records, attempt_counts,
                       conversations, running, session>>]_vars
  /\ [][LET upd == Next_update
            u == upd.user_id
        IN ( /\ Dispatched
             /\ SelectHandler(conversations[u], upd) = "get_location" ) =>
           user_data[u] # NoUser]_vars
  /\ [](\A u \in Users :
          HasConversation(conversations[u]) => user_data[u] # NoUser)

\* a location report waiting for a user the bot has never seen
C13_Witness ==
  /\ running = Idle
  /\ update_queue # <<>>
  /\ HasLocation(Head(update_queue))
  /\ user_data[Head(update_queue).user_id] = NoUser
  /\ conversations[Head(update_queue).user_id] = NONE

\* C14: the ledger only grows at its end: after every step the old ledger
\* is a prefix of the new one; and every accepted report appends a record,
\* also when the ledger already holds records of that user.
C14_AppendOnly ==
  /\ [][/\ Len(attendance_records') >= Len(attendance_records)
        /\ SubSeq(attendance_records', 1, Len(attendance_records))
             = attendance_records]_vars
  /\ [][running.pc = "idle" /\ running'.pc = "success_await" =>
          /\ Len(attendance_records') = Len(attendance_records) + 1
          /\ attendance_records'[Len(attendance_records')].user_id
               = running'.update.user_id]_vars

\* two successful check-ins of one user, one record each
C14_Witness ==
  /\ Len(attendance_records) = 2
  /\ attendance_records[1].user_id = attendance_records[2].user_id
  /\ running.pc = "success_await"

\* C15: (as claimed) also when replies fail, the counter stays within
\* 0..MAX_ATTEMPTS, a conversation that waits for a location has attempts
\* left, and a check-in session has appended at most one record.
C15_ConsistentAfterFailure ==
  \A u \in Users :
    /\ Count(u) <= MAX_ATTEMPTS
    /\ (running = Idle /\ conversations[u] = GET_LOCATION) =>
         Count(u) < MAX_ATTEMPTS
    /\ session[u].records <= 1

\* C16: a location handled in GET_LOCATION is accepted exactly when its
\* distance to the centre is at most the radius: the centre (distance 0)
\* and a point at the radius itself are accepted, a point one metre
\* further is rejected.
C16_InclusiveBoundary ==
  [][LET upd == Next_update
         u == upd.user_id
     IN ( /\ Dispatched
          /\ conversations[u] = GET_LOCATION
          /\ HasLocation(upd) ) =>
        ( running'.pc = "success_await" <=>
            distance_m(upd.location.latitude, upd.location.longitude) <= max_distance_m )]_vars

\* the report from the last point within the radius has been accepted
C16_Witness ==
  /\ running.pc = "success_await"
  /\ running.update.location = P_EDGE_IN
  /\ distance_m(P_EDGE_IN.latitude, P_EDGE_IN.longitude) = max_distance_m
  /\ attendance_records # <<>>

\* C17: the username written into an attendance record is the username
\* carried by the location message that was accepted, also when the sender
\* registered under another username.
C17_NameAtSubmission ==
  [][LET upd == Next_update
     IN ( /\ Dispatched
          /\ running'.pc = "success_await" ) =>
        attendance_records'[Len(attendance_records')].username = upd.username]_vars

\* the user ids that have an entry in the registry d
Registered(d) == {u \in Users : d[u] # NoUser}

\* C18: the registry only grows. No step removes an entry; an entry
\* appears only when /start from a user without an entry is handled, and it
\* then holds that message's username; every /start from a user without an
\* entry creates one; a /start from a registered user leaves the set of
\* entries and every other user's entry as they are.
C18_RegistryOnlyGrows ==
  [][LET upd == Next_update
         u == upd.user_id
     IN /\ Registered(user_data) \subseteq Registered(user_data')
        /\ \A v \in Registered(user_data') \ Registered(user_data) :
             /\ Dispatched
             /\ u = v
             /\ upd.text = "/start"
             /\ user_data'[v] = upd.username
        /\ (Dispatched /\ upd.text = "/start" /\ user_data[u] = NoUser) =>
             user_data'[u] = upd.username
        /\ (Dispatched /\ upd.text = "/start" /\ user_data[u] # NoUser) =>
             /\ Registered(user_data') = Registered(user_data)
             /\ \A v \in Users \ {u} : user_data'[v] = user_data[v]]_vars

\* both users are registered and the start handler is running for a
\* registered user who now carries another username
C18_Witness ==
  /\ Registered(user_data) = Users
  /\ running.pc = "start_await"
  /\ user_data[running.update.user_id] # running.update.username

====
